---- MODULE Spec2Model ----
(***************************************************************************)
(* Cash-flow forecasting engine (src/src/forecasting/cash_flow_forecaster). *)
(*                                                                         *)
(* Number representation.  The program computes in binary floating point.  *)
(* The model computes in exact fixed point: one currency unit is Unit grid *)
(* steps, chosen so that every quotient the statistical model forms from   *)
(* whole-unit inputs (scenario weights k/n with n <= 3, factors in whole   *)
(* percent, weighted averages over 1..6 terms, 2-digit rounding) is an     *)
(* integer number of grid steps.  Dates are day numbers.  runway_months is *)
(* held in thirtieths of a month, because the program forms it as a number *)
(* of days divided by 30.  Square roots are taken to the floor on the grid.*)
(* Rounding to 2 digits is exact half-to-even; on an exact tie the float    *)
(* program may land on the neighbouring cent.  The diagnostic metrics map   *)
(* of a ForecastResult is not modelled.                                     *)
(* The optional Prophet model is not installed (PROPHET_AVAILABLE = False),*)
(* so forecast always takes the statistical branch.                        *)
(***************************************************************************)
EXTENDS Integers, Sequences, FiniteSets, TLC

VARIABLES data, confidence_level, now, out, analyzer, metrics, analysis

vars == <<data, confidence_level, now, out, analyzer, metrics, analysis>>

(* ------------------------------ bounds --------------------------------- *)
MaxLen == 4
MaxPeriods == 3
MaxTicks == 2
MaxTrendLen == 5
MaxBurnLen == 5
MaxLongLen == 7

(* --------------------------- number grid ------------------------------- *)
Cent == 12 * 21
Unit == 100 * Cent
FlowGrid == Unit \div 120
RunwayDen == 30

Min(a, b) == IF a < b THEN a ELSE b
Max(a, b) == IF a > b THEN a ELSE b
Abs(a) == IF a < 0 THEN 0 - a ELSE a

RECURSIVE Sum(_)
Sum(s) == IF s = <<>> THEN 0 ELSE Head(s) + Sum(Tail(s))

RECURSIVE SqrtSearch(_, _, _)
SqrtSearch(x, lo, hi) ==
    IF lo = hi THEN lo
    ELSE LET mid == (lo + hi + 1) \div 2
         IN  IF mid * mid <= x THEN SqrtSearch(x, mid, hi)
                               ELSE SqrtSearch(x, lo, mid - 1)

\* np.sqrt, to the floor
ISqrt(x) == SqrtSearch(x, 0, 46340)

\* round(x, 2): nearest cent, ties to the even cent
Round2(v) ==
    LET q == v \div Cent
        r == v % Cent
    IN  IF 2 * r < Cent THEN q * Cent
        ELSE IF 2 * r > Cent THEN (q + 1) * Cent
        ELSE IF q % 2 = 0 THEN q * Cent ELSE (q + 1) * Cent

\* a / b (b > 0) rounded to the nearest integer, ties to the even one
RoundDiv(a, b) ==
    LET q == a \div b
        r == a % b
    IN  IF 2 * r < b THEN q
        ELSE IF 2 * r > b THEN q + 1
        ELSE IF q % 2 = 0 THEN q ELSE q + 1

(* --------------------------- ForecastScenario -------------------------- *)
ForecastScenario == <<"baseline", "optimistic", "pessimistic", "growth", "cost_cutting">>
Scenarios == {ForecastScenario[i] : i \in 1..Len(ForecastScenario)}
\* a tag that is no member of the enumeration
UnknownTag == "unknown"
ScenarioTags == Scenarios \cup {UnknownTag}

\* adjustment factors of _apply_scenario, in percent
inflow_factor(scenario) ==
    CASE scenario = "optimistic"   -> 120
      [] scenario = "pessimistic"  -> 80
      [] scenario = "growth"       -> 130
      [] scenario = "cost_cutting" -> 100

outflow_factor(scenario) ==
    CASE scenario = "optimistic"   -> 90
      [] scenario = "pessimistic"  -> 110
      [] scenario = "growth"       -> 115
      [] scenario = "cost_cutting" -> 80

(* ----------------------------- CashFlowData ---------------------------- *)
CashFlowData(dates, cash_inflows, cash_outflows, cash_balances) ==
    [dates |-> dates, cash_inflows |-> cash_inflows,
     cash_outflows |-> cash_outflows, cash_balances |-> cash_balances]

net_cash_flow(d) ==
    [i \in 1..Min(Len(d.cash_inflows), Len(d.cash_outflows)) |->
        d.cash_inflows[i] - d.cash_outflows[i]]

(* --------------------------- _apply_scenario --------------------------- *)
\* x * (1 + (factor - 1) * weight), weight = (i + 1) / n, factor in percent
Adjust(x, factor, i, n) == (x * (100 * n + (factor - 100) * (i + 1))) \div (100 * n)

\* the derived series: last min(3, len) flows scaled, balances re-accumulated
adjusted_data(d, in_factor, out_factor) ==
    LET L == Len(d.dates)
        n == Min(3, L)
        adjusted_inflows == [j \in 1..L |->
            IF j > L - n THEN Adjust(d.cash_inflows[j], in_factor, j - (L - n) - 1, n)
                         ELSE d.cash_inflows[j]]
        adjusted_outflows == [j \in 1..L |->
            IF j > L - n THEN Adjust(d.cash_outflows[j], out_factor, j - (L - n) - 1, n)
                         ELSE d.cash_outflows[j]]
        adjusted_balances[j \in 1..L] ==
            IF j = 1 THEN d.cash_balances[1]
            ELSE adjusted_balances[j - 1] + (adjusted_inflows[j] - adjusted_outflows[j])
    IN  CashFlowData(d.dates, adjusted_inflows, adjusted_outflows, adjusted_balances)

\* variant: Baseline is sent through the adjustment with factors 1.0
apply_scenario_no_shortcut(d, scenario) ==
    IF scenario \notin Scenarios THEN d
    ELSE IF scenario = "baseline" THEN adjusted_data(d, 100, 100)
    ELSE adjusted_data(d, inflow_factor(scenario), outflow_factor(scenario))

_apply_scenario(d, scenario) ==
    IF scenario = "baseline" THEN d
    ELSE IF scenario \notin Scenarios THEN d
    ELSE adjusted_data(d, inflow_factor(scenario), outflow_factor(scenario))

\* variant: the work lists are the caller's lists (no .copy()), so the
\* in-place writes of _apply_scenario land in the caller's series
series_after_apply_scenario_aliased(d, scenario) ==
    IF scenario \in Scenarios \ {"baseline"}
    THEN adjusted_data(d, inflow_factor(scenario), outflow_factor(scenario))
    ELSE d

\* The caller's series once _apply_scenario has run.  Every in-place write of
\* _apply_scenario (*=, item assignment) goes to a list made by .copy(); the
\* dates list is shared with the derived series but never written.
series_after_apply_scenario(d, scenario) == d

(* --------------------------- _calculate_runway ------------------------- *)
NoDate == <<>>
SomeDate(day) == <<day>>

\* indices (1-based) at which the forecast balance is <= 0
Crossings(forecast) == {i \in 1..Len(forecast) : forecast[i] <= 0}

\* variant: the latest crossing is taken instead of the first
last_crossing(forecast) ==
    CHOOSE i \in Crossings(forecast) : \A j \in Crossings(forecast) : i >= j

FirstCrossing(forecast) ==
    CHOOSE i \in Crossings(forecast) : \A j \in Crossings(forecast) : i <= j

\* variant: the fall-through reports the last index instead of the length
never_negative_last_index(forecast) == <<RunwayDen * (Len(forecast) - 1), NoDate>>

\* cash does not go negative in the forecast
never_negative(forecast) == <<RunwayDen * Len(forecast), NoDate>>

\* returns <<runway (thirtieths of a month), zero_cash_date>>
_calculate_runway(current_cash, forecast, dates, clock) ==
    IF Crossings(forecast) = {} THEN never_negative(forecast)
    ELSE
      LET k == FirstCrossing(forecast)      \* the program's i is k - 1
          cash == forecast[k]
      IN  IF k - 1 > 0 /\ forecast[k - 1] # cash
          THEN LET prev_cash == forecast[k - 1]
                   days_diff == dates[k] - dates[k - 1]
                   \* int(days_diff * ratio), ratio = prev_cash / (prev_cash - cash)
                   zero_date == dates[k - 1] + (days_diff * prev_cash) \div (prev_cash - cash)
                   runway == zero_date - clock
               IN  <<Max(0, runway), SomeDate(zero_date)>>
          ELSE <<RunwayDen * (k - 1), SomeDate(dates[k])>>

(* ------------------------- _forecast_statistical ----------------------- *)
\* variant: the weights run over the whole history, not the last 6 flows
weighted_avg_whole_history(net_flows) ==
    LET w == Len(net_flows)
    IN  Sum([j \in 1..w |-> net_flows[j] * j]) \div Sum([j \in 1..w |-> j])

weighted_avg(net_flows) ==
    LET w == Min(6, Len(net_flows))
        recent == SubSeq(net_flows, Len(net_flows) - w + 1, Len(net_flows))
    IN  Sum([j \in 1..w |-> recent[j] * j]) \div Sum([j \in 1..w |-> j])

\* n^2 times the population variance (np.std divides by n) of the net flows,
\* in squared FlowGrid steps
SqDev(net_flows) ==
    LET n == Len(net_flows)
        u == [j \in 1..n |-> net_flows[j] \div FlowGrid]
    IN  n * Sum([j \in 1..n |-> u[j] * u[j]]) - Sum(u) * Sum(u)

\* z multiplier in hundredths; the level is in percent
z_score(level) == IF level = 80 THEN 128 ELSE 196

\* variant: the width enters with the wrong sign
interval_width_negated(level, net_flows, k) ==
    0 - (z_score(level) * FlowGrid * ISqrt(SqDev(net_flows) * k)) \div (100 * Len(net_flows))

\* z_score * std_dev * np.sqrt(i + 1), with i + 1 = k; the two roots are taken as one
interval_width(level, net_flows, k) ==
    IF Len(net_flows) > 2
    THEN (z_score(level) * FlowGrid * ISqrt(SqDev(net_flows) * k)) \div (100 * Len(net_flows))
    ELSE ((((Abs(weighted_avg(net_flows)) \div 5) * ISqrt(10000 * k)) \div 100) * z_score(level)) \div 100

_forecast_statistical(d, periods, scenario, level, clock) ==
    LET net_flows == net_cash_flow(d)
        avg == weighted_avg(net_flows)
        last_date == d.dates[Len(d.dates)]
        last_cash == d.cash_balances[Len(d.cash_balances)]
        current_cash(k) == last_cash + k * avg
        forecast_dates == [k \in 1..periods |-> last_date + 30 * k]
        predicted_cash == [k \in 1..periods |-> Round2(current_cash(k))]
        lower_bound == [k \in 1..periods |->
            Round2(current_cash(k) - interval_width(level, net_flows, k))]
        upper_bound == [k \in 1..periods |->
            Round2(current_cash(k) + interval_width(level, net_flows, k))]
        rw == _calculate_runway(last_cash, predicted_cash, forecast_dates, clock)
    IN  [forecast_dates |-> forecast_dates,
         predicted_cash |-> predicted_cash,
         lower_bound |-> lower_bound,
         upper_bound |-> upper_bound,
         confidence_level |-> level,
         runway_months |-> rw[1],
         zero_cash_date |-> rw[2],
         scenario |-> scenario,
         model_type |-> "statistical"]

(* -------------------------------- forecast ----------------------------- *)
Raise(e) == [ok |-> FALSE, error |-> e]
Return(v) == [ok |-> TRUE, value |-> v]

\* variant: the length check is off by one
forecast_two_points(d, periods, scenario, level, clock) ==
    IF Len(d.dates) < 2 THEN Raise("ValueError")
    ELSE Return(_forecast_statistical(_apply_scenario(d, scenario), periods, scenario, level, clock))

forecast(d, periods, scenario, level, clock) ==
    IF Len(d.dates) < 3 THEN Raise("ValueError")
    ELSE Return(_forecast_statistical(_apply_scenario(d, scenario), periods, scenario, level, clock))

\* the caller's series once forecast has run: forecast raises before it
\* touches anything, and _forecast_statistical writes only its own lists
series_after_forecast(d, scenario) ==
    IF Len(d.dates) < 3 THEN d ELSE series_after_apply_scenario(d, scenario)

(* ------------------------ multi_scenario_forecast ---------------------- *)
\* the caller's series when the loop reaches the i-th member of the enumeration
RECURSIVE series_before_scenario(_, _)
series_before_scenario(d, i) ==
    IF i = 1 THEN d
    ELSE series_after_forecast(series_before_scenario(d, i - 1), ForecastScenario[i - 1])

\* variant: a failed scenario is stored as an entry instead of being skipped
multi_scenario_forecast_keeps_failures(d, periods, level, clock) ==
    [s \in Scenarios |-> forecast(d, periods, s, level, clock)]

multi_scenario_forecast(d, periods, level, clock) ==
    LET attempt == [i \in 1..Len(ForecastScenario) |->
                       forecast(series_before_scenario(d, i), periods,
                                ForecastScenario[i], level, clock)]
        succeeded == {i \in 1..Len(ForecastScenario) : attempt[i].ok}
        index(s) == CHOOSE i \in succeeded : ForecastScenario[i] = s
    IN  [s \in {ForecastScenario[i] : i \in succeeded} |-> attempt[index(s)].value]

(* ---------------------------- calculate_burn_rate ---------------------- *)
\* "increasing", "decreasing" or "stable" from the least-squares slope of the
\* values against their index; x is doubled and centred, so slope = 2 * sxy / sxx
\* variant: the trend of the magnitudes, so a deepening loss reads increasing
calculate_trend_of_magnitudes(values) ==
    IF Len(values) < 2 THEN "stable"
    ELSE
      LET m == Len(values)
          u == [j \in 1..m |-> Abs(values[j]) \div FlowGrid]
          x == [j \in 1..m |-> 2 * (j - 1) - (m - 1)]
          sxy == Sum([j \in 1..m |-> x[j] * u[j]])
          sxx == Sum([j \in 1..m |-> x[j] * x[j]])
      IN  IF sxx = 0 THEN "stable"
          ELSE IF 40 * m * sxy > Abs(Sum(u)) * sxx THEN "increasing"
          ELSE IF 40 * m * sxy < 0 - Abs(Sum(u)) * sxx THEN "decreasing"
          ELSE "stable"

_calculate_trend(values) ==
    IF Len(values) < 2 THEN "stable"
    ELSE
      LET m == Len(values)
          u == [j \in 1..m |-> values[j] \div FlowGrid]
          x == [j \in 1..m |-> 2 * (j - 1) - (m - 1)]
          sxy == Sum([j \in 1..m |-> x[j] * u[j]])
          sxx == Sum([j \in 1..m |-> x[j] * x[j]])
          \* slope > threshold, threshold = abs(y_mean) * 0.05, cleared of fractions
      IN  IF sxx = 0 THEN "stable"
          ELSE IF 40 * m * sxy > Abs(Sum(u)) * sxx THEN "increasing"
          ELSE IF 40 * m * sxy < 0 - Abs(Sum(u)) * sxx THEN "decreasing"
          ELSE "stable"

NoRunway == <<>>
SomeRunway(tenths) == <<tenths>>

\* variant: the burn is averaged over all periods, not the burning ones
calculate_burn_rate_over_all_periods(d) ==
    IF Len(d.cash_balances) = 0 THEN Raise("IndexError")
    ELSE
      LET net_flows == net_cash_flow(d)
          burns == SelectSeq(net_flows, LAMBDA f : f < 0)
          avg_burn == IF burns # <<>> THEN Abs(Sum(burns) \div Len(net_flows)) ELSE 0
          avg_outflow == Sum(d.cash_outflows) \div Len(d.cash_outflows)
          current_cash == d.cash_balances[Len(d.cash_balances)]
      IN  Return([net_burn_rate |-> Round2(avg_burn),
                  gross_burn_rate |-> Round2(avg_outflow),
                  current_cash |-> Round2(current_cash),
                  runway_months_net |->
                      IF avg_burn > 0 THEN SomeRunway(RoundDiv(10 * current_cash, avg_burn))
                                      ELSE NoRunway,
                  runway_months_gross |->
                      IF avg_outflow > 0 THEN SomeRunway(RoundDiv(10 * current_cash, avg_outflow))
                                         ELSE NoRunway,
                  burn_trend |-> IF burns # <<>> THEN _calculate_trend(burns) ELSE "stable"])

\* runway figures are in tenths of a month (round(x, 1))
calculate_burn_rate(d) ==
    IF Len(d.cash_balances) = 0 THEN Raise("IndexError")
    ELSE
      LET net_flows == net_cash_flow(d)
          burns == SelectSeq(net_flows, LAMBDA f : f < 0)
          avg_burn == IF burns # <<>> THEN Abs(Sum(burns) \div Len(burns)) ELSE 0
          avg_outflow == Sum(d.cash_outflows) \div Len(d.cash_outflows)
          current_cash == d.cash_balances[Len(d.cash_balances)]
      IN  Return([net_burn_rate |-> Round2(avg_burn),
                  gross_burn_rate |-> Round2(avg_outflow),
                  current_cash |-> Round2(current_cash),
                  runway_months_net |->
                      IF avg_burn > 0 THEN SomeRunway(RoundDiv(10 * current_cash, avg_burn))
                                      ELSE NoRunway,
                  runway_months_gross |->
                      IF avg_outflow > 0 THEN SomeRunway(RoundDiv(10 * current_cash, avg_outflow))
                                         ELSE NoRunway,
                  burn_trend |-> IF burns # <<>> THEN _calculate_trend(burns) ELSE "stable"])

(* --------------------------- inputs of the model ----------------------- *)
\* One historical period as the caller records it: inflow and outflow in
\* currency units, and the part of the change in the recorded balance that the
\* two flows do not explain (the caller fills balances from its own ledger).
PeriodKinds ==
    { [inflow |-> 6, outflow |-> 3, unexplained |-> 0],
      [inflow |-> 3, outflow |-> 9, unexplained |-> 0],
      [inflow |-> 6, outflow |-> 6, unexplained |-> 6] }

OpeningCash == 10

Histories == UNION {[1..L -> PeriodKinds] : L \in 0..MaxLen}

SeriesOf(h) ==
    LET L == Len(h)
        bal[j \in 0..L] ==
            IF j = 0 THEN OpeningCash
            ELSE bal[j - 1] + h[j].inflow - h[j].outflow + h[j].unexplained
    IN  CashFlowData([j \in 1..L |-> 30 * (j - 1)],
                     [j \in 1..L |-> Unit * h[j].inflow],
                     [j \in 1..L |-> Unit * h[j].outflow],
                     [j \in 1..L |-> Unit * bal[j]])

ConfidenceLevels == {80, 85, 95}

ClockStart == 60
ClockStep == 20
Clock == {ClockStart + ClockStep * t : t \in 0..MaxTicks}

(* ------------------------------ state machine -------------------------- *)
\* The forecaster keeps no state between calls: __init__ sets confidence_level
\* and nothing writes it afterwards.  A behaviour is therefore one call on a
\* series, optionally followed by repetitions of that call at later wall-clock
\* times; out is the caller's record of its latest call.
\* variant: the default threshold is 1.0
default_analyzer_threshold_one == [anomaly_threshold |-> 10, min_seasonality_periods |-> 12]

\* TrendAnalyzer(): anomaly_threshold 2.0 in tenths, min_seasonality_periods
DefaultAnalyzer == [anomaly_threshold |-> 20, min_seasonality_periods |-> 12]

Init ==
    /\ data \in {SeriesOf(h) : h \in Histories}
    /\ confidence_level \in ConfidenceLevels
    /\ now = ClockStart
    /\ out = [op |-> "none"]
    /\ analyzer = DefaultAnalyzer
    /\ metrics = <<>>
    /\ analysis = [op |-> "none"]

\* a caller invokes forecast; datetime.now() reads the wall clock
Forecast ==
    /\ out.op = "none"
    /\ \E periods \in 1..MaxPeriods, scenario \in ScenarioTags, t \in Clock :
        /\ t >= now
        /\ now' = t
        /\ out' = [op |-> "forecast", periods |-> periods, scenario |-> scenario,
                   ret |-> forecast(data, periods, scenario, confidence_level, t)]
        /\ data' = series_after_forecast(data, scenario)
    /\ UNCHANGED <<confidence_level, analyzer, metrics, analysis>>

\* the caller repeats its forecast call, with the same arguments, later
ForecastAgain ==
    /\ out.op = "forecast"
    /\ \E t \in Clock :
        /\ t > now
        /\ now' = t
        /\ out' = [out EXCEPT !.ret =
                      forecast(data, out.periods, out.scenario, confidence_level, t)]
    /\ data' = series_after_forecast(data, out.scenario)
    /\ UNCHANGED <<confidence_level, analyzer, metrics, analysis>>

\* a caller invokes multi_scenario_forecast
MultiScenarioForecast ==
    /\ out.op = "none"
    /\ \E periods \in 1..MaxPeriods, t \in Clock :
        /\ t >= now
        /\ now' = t
        /\ out' = [op |-> "multi_scenario_forecast", periods |-> periods,
                   ret |-> multi_scenario_forecast(data, periods, confidence_level, t)]
    /\ data' = series_before_scenario(data, Len(ForecastScenario) + 1)
    /\ UNCHANGED <<confidence_level, analyzer, metrics, analysis>>

\* a caller invokes calculate_burn_rate, which only reads the series
CalculateBurnRate ==
    /\ out.op = "none"
    /\ out' = [op |-> "calculate_burn_rate", ret |-> calculate_burn_rate(data)]
    /\ UNCHANGED <<data, confidence_level, now, analyzer, metrics, analysis>>

Next == Forecast \/ ForecastAgain \/ MultiScenarioForecast \/ CalculateBurnRate

Spec == Init /\ [][Next]_vars

(* ------------------------------ longer histories ----------------------- *)
\* forecast on histories of 5 periods and more, so that periods lie before
\* the 3 a scenario adjusts and before the 6 the weighted average reads.
LongKinds ==
    { [inflow |-> 3, outflow |-> 9, unexplained |-> 0],
      [inflow |-> 6, outflow |-> 6, unexplained |-> 6] }

LongHistories == UNION {[1..L -> LongKinds] : L \in 5..MaxLongLen}

LongInit ==
    /\ data \in {SeriesOf(h) : h \in LongHistories}
    /\ confidence_level = 95
    /\ now = ClockStart
    /\ out = [op |-> "none"]
    /\ analyzer = DefaultAnalyzer
    /\ metrics = <<>>
    /\ analysis = [op |-> "none"]

LongNext == Forecast

LongSpec == LongInit /\ [][LongNext]_vars

(* ------------------------------ burn-rate calls ------------------------ *)
\* calculate_burn_rate on its own, over series that also hold periods of a
\* smaller loss and periods without any flow.
BurnKinds ==
    { [inflow |-> 6, outflow |-> 3, unexplained |-> 0],
      [inflow |-> 3, outflow |-> 9, unexplained |-> 0],
      [inflow |-> 3, outflow |-> 6, unexplained |-> 0],
      [inflow |-> 0, outflow |-> 0, unexplained |-> 0] }

BurnHistories == UNION {[1..L -> BurnKinds] : L \in 0..MaxBurnLen}

BurnInit ==
    /\ data \in {SeriesOf(h) : h \in BurnHistories}
    /\ confidence_level = 95
    /\ now = ClockStart
    /\ out = [op |-> "none"]
    /\ analyzer = DefaultAnalyzer
    /\ metrics = <<>>
    /\ analysis = [op |-> "none"]

BurnNext == CalculateBurnRate

BurnSpec == BurnInit /\ [][BurnNext]_vars

(***************************************************************************)
(* Trend analyzer (src/src/forecasting/trend_analyzer.py).                 *)
(*                                                                         *)
(* Metric values are integers and dates are month numbers (0 = January of  *)
(* the first year).  Quantities the program holds as floats are held as    *)
(* exact fractions [num, den] until the program rounds them; a rounded     *)
(* field is an integer count of its last digit (slope and r_squared in     *)
(* 1/10000, recent_change in 1/100).  Comparisons against thresholds are    *)
(* cleared of fractions and square roots, so they are exact.  A value that *)
(* needs a square root (volatility, z_score) is rounded from the floor     *)
(* root.  With n values, S their sum and Q the sum of their squares,       *)
(* D = n*Q - S*S is n^2 times the population variance np.std uses.         *)
(* A float comparison can differ from the exact one only where the two     *)
(* sides are equal; the input series stay off such ties.                   *)
(***************************************************************************)
RECURSIVE GCD(_, _)
GCD(a, b) == IF b = 0 THEN Abs(a) ELSE GCD(b, a % Abs(b))

LCM(a, b) == (a * b) \div GCD(a, b)

Fraction(num, den) ==
    LET g == GCD(num, den)
        sgn == IF den < 0 THEN 0 - 1 ELSE 1
    IN  [num |-> sgn * (num \div g), den |-> sgn * (den \div g)]

ZeroFraction == [num |-> 0, den |-> 1]

\* floor(q * 10^digits) by long division, with the remainder left over
RECURSIVE LongDiv(_, _, _, _)
LongDiv(acc, r, b, digits) ==
    IF digits = 0 THEN <<acc, r>>
    ELSE LongDiv(acc * 10 + (r * 10) \div b, (r * 10) % b, b, digits - 1)

\* round(q, digits) as a count of the last digit, ties to even
RoundFraction(q, digits) ==
    LET d == LongDiv(q.num \div q.den, q.num % q.den, q.den, digits)
    IN  IF 2 * d[2] < q.den THEN d[1]
        ELSE IF 2 * d[2] > q.den THEN d[1] + 1
        ELSE IF d[1] % 2 = 0 THEN d[1] ELSE d[1] + 1

AbsFraction(q) == [num |-> Abs(q.num), den |-> q.den]

SumSq(v) == Sum([j \in 1..Len(v) |-> v[j] * v[j]])

\* n * Q - S * S
Dispersion(v) == Len(v) * SumSq(v) - Sum(v) * Sum(v)

\* round(100 * sqrt(a2 / d2)) for d2 > 0, from the floor root
RootRatio(a2, d2) == (ISqrt((40000 * a2) \div d2) + 1) \div 2

(* ------------------------------ _analyze_trend ------------------------- *)
\* x doubled and centred: 2 * (x - x_mean)
CentredIndex(n) == [j \in 1..n |-> 2 * (j - 1) - (n - 1)]

\* sum of 2 * (x - x_mean) * y, which is 2 * numerator
Sxy(v) == Sum([j \in 1..Len(v) |-> CentredIndex(Len(v))[j] * v[j]])

\* sum of (2 * (x - x_mean))^2, which is 4 * denominator
Sxx(n) == Sum([j \in 1..n |-> CentredIndex(n)[j] * CentredIndex(n)[j]])

\* variant: the slope is looked at before the volatility
direction_of_slope_first(v) ==
    LET n == Len(v)
        S == Sum(v)
    IN  IF 200 * n * Abs(Sxy(v)) < Abs(S) * Sxx(n) THEN "stable"
        ELSE IF S # 0 /\ 100 * Dispersion(v) > 9 * S * S THEN "volatile"
        ELSE IF Sxy(v) > 0 THEN "increasing"
        ELSE "decreasing"

\* lines 186-196: np.std / abs(y_mean) > 0.3, abs(slope) < abs(y_mean) * 0.01
direction_of(v) ==
    LET n == Len(v)
        S == Sum(v)
    IN  IF S # 0 /\ 100 * Dispersion(v) > 9 * S * S THEN "volatile"
        ELSE IF 200 * n * Abs(Sxy(v)) < Abs(S) * Sxx(n) THEN "stable"
        ELSE IF Sxy(v) > 0 THEN "increasing"
        ELSE "decreasing"

\* returns <<direction, slope, r_squared>>, the last two as fractions
_analyze_trend(v) ==
    LET n == Len(v)
    IN  IF Sxx(n) = 0 THEN <<"stable", ZeroFraction, ZeroFraction>>
        ELSE <<direction_of(v),
               Fraction(2 * Sxy(v), Sxx(n)),
               IF Dispersion(v) > 0
               THEN Fraction(n * Sxy(v) * Sxy(v), Sxx(n) * Dispersion(v))
               ELSE ZeroFraction>>

(* ------------------------------ _detect_seasonality -------------------- *)
SeasonalPattern == {"none", "monthly", "quarterly", "annual", "custom"}

\* date.month of a month number
MonthOf(date) == (date % 12) + 1

NoFactors == [m \in {} |-> ZeroFraction]

\* months_data: the positions of zip(dates, values) that fall in month m
MonthPositions(v, dates, m) ==
    {j \in 1..Min(Len(v), Len(dates)) : MonthOf(dates[j]) = m}

RECURSIVE SumOver(_, _)
SumOver(v, js) ==
    IF js = {} THEN 0
    ELSE LET j == CHOOSE k \in js : TRUE
         IN  v[j] + SumOver(v, js \ {j})

RECURSIVE LCMOver(_)
LCMOver(ns) ==
    IF ns = {} THEN 1
    ELSE LET k == CHOOSE c \in ns : TRUE
         IN  LCM(k, LCMOver(ns \ {k}))

\* np.var(factors) > 0.01, with every factor on the denominator C * S / n
factors_vary(v, dates, months) ==
    LET n == Len(v)
        S == Sum(v)
        k == Cardinality(months)
        C == LCMOver({Cardinality(MonthPositions(v, dates, m)) : m \in months})
        F == [m \in months |->
                 SumOver(v, MonthPositions(v, dates, m))
                     * (C \div Cardinality(MonthPositions(v, dates, m)))]
        sumF == SumOver(F, months)
        sumF2 == SumOver([m \in months |-> F[m] * F[m]], months)
    IN  100 * n * n * (k * sumF2 - sumF * sumF) > k * k * C * C * S * S

\* variant: three distinct months are enough
enough_months_three(months) == Cardinality(months) >= 3

\* line 220: len(months_data) >= 4
enough_months(months) == Cardinality(months) >= 4

\* returns <<pattern, factors>>
_detect_seasonality(v, dates, min_seasonality_periods) ==
    IF Len(v) < min_seasonality_periods THEN <<"none", NoFactors>>
    ELSE IF Sum(v) = 0 THEN <<"none", NoFactors>>
    ELSE LET months == {MonthOf(dates[j]) : j \in 1..Min(Len(v), Len(dates))}
         IN  IF enough_months(months) /\ factors_vary(v, dates, months)
             THEN <<"monthly",
                    [m \in months |->
                        Fraction(SumOver(v, MonthPositions(v, dates, m)) * Len(v),
                                 Cardinality(MonthPositions(v, dates, m)) * Sum(v))]>>
             ELSE <<"none", NoFactors>>

(* ------------------------------ volatility, recent change -------------- *)
\* np.std(values) / abs(mean_val), as [radicand, den]: sqrt(radicand) / den
_calculate_volatility(v) ==
    IF Sum(v) = 0 THEN [radicand |-> 0, den |-> 1]
    ELSE [radicand |-> Dispersion(v), den |-> Abs(Sum(v))]

\* round(volatility, 4), from the floor root of the radicand
RoundVolatility(vol) == RoundDiv(100 * ISqrt(10000 * vol.radicand), vol.den)

recent_periods == 3

\* variant: the change is divided by the historical average, sign included
recent_change_signed_base(v) ==
    IF Len(v) < recent_periods + 3 THEN ZeroFraction
    ELSE LET h == Len(v) - recent_periods
             H == Sum(SubSeq(v, 1, h))
             R == Sum(SubSeq(v, h + 1, Len(v)))
         IN  IF H = 0 THEN ZeroFraction
             ELSE Fraction(100 * (R * h - recent_periods * H), recent_periods * H)

_calculate_recent_change(v) ==
    IF Len(v) < recent_periods + 3 THEN ZeroFraction
    ELSE LET h == Len(v) - recent_periods
             H == Sum(SubSeq(v, 1, h))
             R == Sum(SubSeq(v, h + 1, Len(v)))
         IN  IF H = 0 THEN ZeroFraction
             ELSE Fraction(100 * (R * h - recent_periods * H),
                           recent_periods * Abs(H))

(* ------------------------------ _detect_anomalies ---------------------- *)
\* variant: only values above the mean are looked at
is_anomalous_signed(v, j, threshold) ==
    LET a == Len(v) * v[j] - Sum(v)
    IN  a > 0 /\ 100 * a * a > threshold * threshold * Dispersion(v)

\* line 280: abs(z_score) > threshold, threshold in tenths
is_anomalous(v, j, threshold) ==
    LET a == Len(v) * v[j] - Sum(v)
    IN  100 * a * a > threshold * threshold * Dispersion(v)

\* round(z_score, 2) in hundredths
RoundZ(v, j) ==
    LET a == Len(v) * v[j] - Sum(v)
        z == RootRatio(a * a, Dispersion(v))
    IN  IF a < 0 THEN 0 - z ELSE z

\* lines 284-290: the record of the flagged observation at position j
AnomalyRecord(v, dates, j) ==
    [index |-> j - 1,
     date |-> dates[j],
     value |-> v[j],
     z_score |-> RoundZ(v, j),
     type |-> IF Len(v) * v[j] - Sum(v) > 0 THEN "high" ELSE "low"]

\* variant: the deviation is divided by the variance, not its root
detect_anomalies_by_variance(v, dates, threshold) ==
    IF Dispersion(v) = 0 THEN <<>>
    ELSE LET flagged == SelectSeq([j \in 1..Min(Len(v), Len(dates)) |-> j],
                                  LAMBDA j : 10 * Len(v) * Abs(Len(v) * v[j] - Sum(v))
                                                 > threshold * Dispersion(v))
         IN  [k \in 1..Len(flagged) |-> AnomalyRecord(v, dates, flagged[k])]

_detect_anomalies(v, dates, threshold) ==
    IF Dispersion(v) = 0 THEN <<>>
    ELSE LET flagged == SelectSeq([j \in 1..Min(Len(v), Len(dates)) |-> j],
                                  LAMBDA j : is_anomalous(v, j, threshold))
         IN  [k \in 1..Len(flagged) |-> AnomalyRecord(v, dates, flagged[k])]

(* ------------------------------ _generate_insights --------------------- *)
\* an f-string, held as its template, the metric it names and its number
Insight(kind, metric_name, arg) ==
    [kind |-> kind, metric |-> metric_name, arg |-> arg]

_generate_insights(metric_name, direction, slope, seasonality, volatility, recent_change, anomalies) ==
    LET trend ==
            IF direction = "increasing"
            THEN <<Insight("upward_trend", metric_name,
                           RoundFraction(AbsFraction(slope), 1))>>
            ELSE IF direction = "decreasing"
            THEN <<Insight("downward_trend", metric_name,
                           RoundFraction(AbsFraction(slope), 1))>>
            ELSE IF direction = "volatile"
            THEN <<Insight("volatile_trend", metric_name, 0)>>
            ELSE <<Insight("relatively_stable", metric_name, 0)>>
        seasonal ==
            IF seasonality = "monthly"
            THEN <<Insight("monthly_seasonal_patterns", metric_name, 0)>>
            ELSE <<>>
        percent == RootRatio(volatility.radicand, volatility.den * volatility.den)
        volatile ==
            IF 100 * volatility.radicand > 9 * volatility.den * volatility.den
            THEN <<Insight("high_volatility", "", percent)>>
            ELSE IF 100 * volatility.radicand < volatility.den * volatility.den
            THEN <<Insight("low_volatility", metric_name, percent)>>
            ELSE <<>>
        recent ==
            IF Abs(recent_change.num) > 10 * recent_change.den
            THEN <<Insight(IF recent_change.num > 0 THEN "recent_increased"
                           ELSE "recent_decreased",
                           metric_name,
                           RoundFraction(AbsFraction(recent_change), 0))>>
            ELSE <<>>
        unusual ==
            IF Len(anomalies) > 0
            THEN <<Insight("unusual_data_points", "", Len(anomalies))>>
            ELSE <<>>
    IN  trend \o seasonal \o volatile \o recent \o unusual

(* ------------------------------ analyze -------------------------------- *)
TrendDirection == {"increasing", "decreasing", "stable", "volatile"}

TrendResult(metric_name, direction, slope, r_squared, seasonality, seasonal_factors, volatility, recent_change, anomalies, insights) ==
    [metric_name |-> metric_name, direction |-> direction, slope |-> slope,
     r_squared |-> r_squared, seasonality |-> seasonality,
     seasonal_factors |-> seasonal_factors, volatility |-> volatility,
     recent_change |-> recent_change, anomalies |-> anomalies,
     insights |-> insights]

\* variant: the degenerate result carries no insight
minimal_result_silent(metric_name) ==
    TrendResult(metric_name, "stable", 0, 0, "none", NoFactors, 0, 0, <<>>, <<>>)

_minimal_result(metric_name) ==
    TrendResult(metric_name, "stable", 0, 0, "none", NoFactors, 0, 0, <<>>,
                <<Insight("insufficient_data", "", 0)>>)

\* a Python value given as `values`: a list of numbers, or None
PyList(items) == [type |-> "list", items |-> items]
PyNone == [type |-> "NoneType", items |-> <<>>]

\* self is the analyzer: anomaly_threshold (tenths), min_seasonality_periods
analyze(self, values, dates, metric_name) ==
    IF values.type # "list" THEN Raise("TypeError")
    ELSE IF Len(values.items) < 3 THEN Return(_minimal_result(metric_name))
    ELSE LET v == values.items
             trend == _analyze_trend(v)
             seasonal == _detect_seasonality(v, dates, self.min_seasonality_periods)
             volatility == _calculate_volatility(v)
             recent_change == _calculate_recent_change(v)
             anomalies == _detect_anomalies(v, dates, self.anomaly_threshold)
         IN  Return(TrendResult(
                 metric_name, trend[1], RoundFraction(trend[2], 4),
                 RoundFraction(trend[3], 4), seasonal[1], seasonal[2],
                 RoundVolatility(volatility), RoundFraction(recent_change, 2),
                 anomalies,
                 _generate_insights(metric_name, trend[1], trend[2], seasonal[1],
                                    volatility, recent_change, anomalies)))

(* ------------------------------ analyze_multiple ----------------------- *)
\* data.items() in insertion order: entries [name, values, dates]
\* variant: the loop stops after the first metric
metric_names_first_only(batch) == {batch[j].name : j \in 1..Min(1, Len(batch))}

MetricNames(batch) == {batch[j].name : j \in 1..Len(batch)}

EntryOf(batch, metric_name) ==
    batch[CHOOSE j \in 1..Len(batch) : batch[j].name = metric_name]

AnalyzeEntry(self, e) == analyze(self, e.values, e.dates, e.name)

\* variant: a metric whose analysis raises is left out of the results
analyze_multiple_drops_failures(self, batch) ==
    [m \in {k \in MetricNames(batch) :
                AnalyzeEntry(self, EntryOf(batch, k)).ok} |->
        AnalyzeEntry(self, EntryOf(batch, m)).value]

analyze_multiple(self, batch) ==
    [m \in MetricNames(batch) |->
        IF ~AnalyzeEntry(self, EntryOf(batch, m)).ok
        THEN _minimal_result(m)
        ELSE AnalyzeEntry(self, EntryOf(batch, m)).value]

(* ------------------------------ trend analyzer state machine ----------- *)
\* The analyzer keeps no state between calls either: __init__ sets the two
\* thresholds.  metrics is the caller's dict of named series, analysis the
\* caller's record of its latest call; a behaviour is one call.
TrendValues == {0 - 10, 0, 10, 12}

DateSteps == {1, 3, 4}

Series(values, dates) == [values |-> values, dates |-> dates]

\* one date every `step` months
DatesEvery(step, n) == [j \in 1..n |-> step * (j - 1)]

ShortSeries ==
    {Series(PyList(v), DatesEvery(step, Len(v))) :
        v \in UNION {[1..L -> TrendValues] : L \in 0..MaxTrendLen},
        step \in DateSteps}

\* ten equal (or nearly equal) values and one far from them
SpikeSeries ==
    {Series(PyList([j \in 1..11 |->
                       IF j = pos THEN far
                       ELSE IF j = 2 + (pos % 11) THEN 10 + jitter ELSE 10]),
            DatesEvery(1, 11)) :
        pos \in {1, 6, 11}, far \in {0, 20}, jitter \in {0, 1}}

\* one or two years of monthly or four-monthly values: flat, or alternating
YearSeries ==
    {Series(PyList([j \in 1..n |-> IF j % 2 = 0 THEN 20 + swing ELSE 20 - swing]),
            DatesEvery(step, n)) :
        n \in {12, 24}, swing \in {0, 1, 4}, step \in {1, 4}}

\* the shortest series that have a recent change: recent_periods + 3 values
RecentValues == {0 - 10, 0, 10}

RecentSeries ==
    {Series(PyList(v), DatesEvery(1, recent_periods + 3)) :
        v \in [1..(recent_periods + 3) -> RecentValues]}

\* values is None
MalformedSeries == Series(PyNone, DatesEvery(1, 3))

Entry(name, s) == [name |-> name, values |-> s.values, dates |-> s.dates]

MetricBatches ==
    {<<Entry("revenue", s)>> :
        s \in ShortSeries \cup SpikeSeries \cup YearSeries \cup RecentSeries}
    \cup {<<Entry("revenue", s), Entry("expenses", MalformedSeries)>> :
             s \in SpikeSeries \cup YearSeries}
    \cup {<<Entry("expenses", MalformedSeries), Entry("revenue", s)>> :
             s \in SpikeSeries \cup YearSeries}

Analyzers ==
    {DefaultAnalyzer,
     [DefaultAnalyzer EXCEPT !.anomaly_threshold = 10],
     [DefaultAnalyzer EXCEPT !.min_seasonality_periods = 4]}

TrendInit ==
    /\ data = SeriesOf(<<>>)
    /\ confidence_level = 95
    /\ now = ClockStart
    /\ out = [op |-> "none"]
    /\ analyzer \in Analyzers
    /\ metrics \in MetricBatches
    /\ analysis = [op |-> "none"]

\* a caller invokes analyze on one of its series
Analyze ==
    /\ analysis.op = "none"
    /\ \E j \in 1..Len(metrics) :
        analysis' = [op |-> "analyze", values |-> metrics[j].values,
                     dates |-> metrics[j].dates,
                     ret |-> AnalyzeEntry(analyzer, metrics[j])]
    /\ UNCHANGED <<data, confidence_level, now, out, analyzer, metrics>>

\* a caller invokes analyze_multiple on its dict
AnalyzeMultiple ==
    /\ analysis.op = "none"
    /\ analysis' = [op |-> "analyze_multiple",
                    ret |-> analyze_multiple(analyzer, metrics)]
    /\ UNCHANGED <<data, confidence_level, now, out, analyzer, metrics>>

TrendNext == Analyze \/ AnalyzeMultiple

TrendSpec == TrendInit /\ [][TrendNext]_vars

(* ------------------------------ properties ----------------------------- *)
\* the latest call was forecast and it returned a ForecastResult
Forecasted == out.op = "forecast" /\ out.ret.ok

Last(seq) == seq[Len(seq)]

\* the series the projection of the latest forecast call ran on
Projected == _apply_scenario(data, out.scenario)

\* C1: in every ForecastResult of forecast on a series of at least 3 periods,
\* lower_bound[i] <= predicted_cash[i] <= upper_bound[i] at every horizon index.
C1_BoundsBracketPrediction ==
    Forecasted =>
        \A i \in 1..out.periods :
            /\ out.ret.value.lower_bound[i] <= out.ret.value.predicted_cash[i]
            /\ out.ret.value.predicted_cash[i] <= out.ret.value.upper_bound[i]

\* a forecast whose interval is strictly wider than a point at some index
C1_Witness ==
    /\ Forecasted
    /\ out.scenario = "growth"
    /\ \E i \in 1..out.periods :
        /\ out.ret.value.lower_bound[i] < out.ret.value.predicted_cash[i]
        /\ out.ret.value.predicted_cash[i] < out.ret.value.upper_bound[i]

\* C2: for the same series and horizon, the last predicted balance of
\* Optimistic >= that of Baseline >= that of Pessimistic.
C2_ScenarioOrdering ==
    (out.op = "multi_scenario_forecast"
        /\ {"optimistic", "baseline", "pessimistic"} \subseteq DOMAIN out.ret) =>
        /\ Last(out.ret["optimistic"].predicted_cash) >= Last(out.ret["baseline"].predicted_cash)
        /\ Last(out.ret["baseline"].predicted_cash) >= Last(out.ret["pessimistic"].predicted_cash)

\* the point before horizon index k: the last historical point for the first
\* index, the previous projected point otherwise
PriorDate(k) == IF k = 1 THEN Last(Projected.dates) ELSE out.ret.value.forecast_dates[k - 1]
PriorCash(k) == IF k = 1 THEN Last(Projected.cash_balances) ELSE out.ret.value.predicted_cash[k - 1]

\* day is within one day of the point where the straight line from the prior
\* point to the point of index k meets zero (amounts in cents)
WithinOneDayOfInterpolation(day, k) ==
    LET prev == PriorCash(k) \div Cent
        cash == out.ret.value.predicted_cash[k] \div Cent
        span == out.ret.value.forecast_dates[k] - PriorDate(k)
    IN  Abs((day - PriorDate(k)) * (prev - cash) - span * prev) <= prev - cash

\* C3: when the projected balance first becomes <= 0 at index i, coming from a
\* positive prior balance, the zero-cash date is within one day of the linear
\* interpolation between the prior point and the crossing point, for every i
\* including i = 0.
C3_ZeroDateInterpolated ==
    (Forecasted /\ Crossings(out.ret.value.predicted_cash) # {}
        /\ PriorCash(FirstCrossing(out.ret.value.predicted_cash)) > 0) =>
        /\ out.ret.value.zero_cash_date # NoDate
        /\ WithinOneDayOfInterpolation(out.ret.value.zero_cash_date[1],
                                       FirstCrossing(out.ret.value.predicted_cash))

\* C4: when the projected balance first becomes <= 0 at index i, runway_months
\* lies between i and i + 1 and never exceeds the number of forecast periods.
C4_RunwayWithinCrossingMonth ==
    (Forecasted /\ Crossings(out.ret.value.predicted_cash) # {}) =>
        LET i == FirstCrossing(out.ret.value.predicted_cash) - 1
        IN  /\ RunwayDen * i <= out.ret.value.runway_months
            /\ out.ret.value.runway_months <= RunwayDen * (i + 1)
            /\ out.ret.value.runway_months <= RunwayDen * out.periods

\* C5: if no projected balance within the horizon is <= 0, runway_months is the
\* number of forecast periods and there is no zero-cash date.
C5_NoCrossingFullRunway ==
    (Forecasted /\ Crossings(out.ret.value.predicted_cash) = {}) =>
        /\ out.ret.value.runway_months = RunwayDen * out.periods
        /\ out.ret.value.zero_cash_date = NoDate

\* a forecast of a history whose balance rose by the same net flow each period
C5_Witness ==
    /\ Forecasted
    /\ out.scenario = "baseline"
    /\ Len(data.dates) >= 3
    /\ \A j \in 2..Len(data.dates) :
        /\ data.cash_inflows[j] - data.cash_outflows[j] = Unit * 3
        /\ data.cash_balances[j] = data.cash_balances[j - 1] + Unit * 3
    /\ Crossings(out.ret.value.predicted_cash) = {}
    /\ out.ret.value.runway_months = RunwayDen * out.periods

\* C6: forecast is a pure function of its inputs: a call repeated with equal
\* series, periods, scenario and configuration at a later wall-clock time
\* returns an equal ForecastResult, runway_months and zero_cash_date included.
C6_PureFunction ==
    [][(/\ out.op = "forecast" /\ out'.op = "forecast"
        /\ out'.periods = out.periods /\ out'.scenario = out.scenario
        /\ data' = data /\ confidence_level' = confidence_level)
       => out'.ret = out.ret]_vars

\* C7: forecast fails with the insufficient-data error (ValueError) exactly
\* when the series has fewer than 3 periods, whatever the scenario.
C7_InsufficientData ==
    out.op = "forecast" =>
        /\ Len(data.dates) < 3 => (~out.ret.ok /\ out.ret.error = "ValueError")
        /\ Len(data.dates) >= 3 => out.ret.ok

\* forecast was called on a two-period series and raised
C7_Witness ==
    /\ out.op = "forecast"
    /\ Len(data.dates) = 2
    /\ out.scenario = "optimistic"
    /\ ~out.ret.ok

\* C8: forecast called with a scenario tag outside the enumeration returns no
\* ForecastResult; on a series long enough to forecast it fails with
\* InvalidScenario.
C8_InvalidScenarioRejected ==
    (out.op = "forecast" /\ out.scenario \notin Scenarios) =>
        /\ ~out.ret.ok
        /\ Len(data.dates) >= 3 => out.ret.error = "InvalidScenario"

\* the supported level nearer to the configured one
NearerLevel(level) == IF Abs(level - 80) <= Abs(level - 95) THEN 80 ELSE 95

\* C9: the bounds of a ForecastResult are those of z = 1.28 at level 0.80 and
\* z = 1.96 at level 0.95, and at any other configured level those of the
\* nearer of the two supported levels.
C9_ZOfNearerLevel ==
    Forecasted =>
        LET nearer == _forecast_statistical(Projected, out.periods, out.scenario,
                                            NearerLevel(confidence_level), now)
        IN  /\ out.ret.value.lower_bound = nearer.lower_bound
            /\ out.ret.value.upper_bound = nearer.upper_bound

\* C10: forecast under Baseline equals the projection computed directly on
\* the caller's unadjusted series.
C10_BaselineIdentity ==
    (Forecasted /\ out.scenario = "baseline") =>
        out.ret.value = _forecast_statistical(data, out.periods, "baseline",
                                              confidence_level, now)

\* a Baseline forecast of a series whose recorded balances are not the running
\* sum of its net flows
C10_Witness ==
    /\ Forecasted
    /\ out.scenario = "baseline"
    /\ \E j \in 2..Len(data.dates) :
        data.cash_balances[j] # data.cash_balances[j - 1]
                                 + data.cash_inflows[j] - data.cash_outflows[j]

C12_MultiScenarioPartial ==
    out.op = "multi_scenario_forecast" =>
        /\ DOMAIN out.ret = (IF Len(data.dates) >= 3 THEN Scenarios ELSE {})
        /\ \A s \in DOMAIN out.ret :
               out.ret[s] = forecast(data, out.periods, s, confidence_level, now).value

\* multi_scenario_forecast ran on a two-period series: every scenario failed
C12_Witness ==
    /\ out.op = "multi_scenario_forecast"
    /\ Len(data.dates) = 2
    /\ DOMAIN out.ret = {}

(* ------------------------------ trend analyzer properties -------------- *)
Analyzed == analysis.op = "analyze" /\ analysis.ret.ok

Batched == analysis.op = "analyze_multiple"

BatchFails(j) == ~analyze(analyzer, metrics[j].values, metrics[j].dates,
                          metrics[j].name).ok

IsDegenerate(r) ==
    /\ r.direction = "stable"
    /\ r.slope = 0
    /\ r.r_squared = 0
    /\ r.seasonality = "none"
    /\ Len(r.insights) = 1
    /\ r.insights[1].kind = "insufficient_data"

\* C13: analyze_multiple returns an entry for every metric name of its input;
\* a metric whose analysis fails maps to the degenerate result, and every
\* other metric maps to the result analyze returns for it alone, wherever the
\* failing metric stands in the batch.
C13_BatchIsolatesFailures ==
    Batched =>
        /\ DOMAIN analysis.ret = {metrics[j].name : j \in 1..Len(metrics)}
        /\ \A j \in 1..Len(metrics) :
               IF BatchFails(j)
               THEN IsDegenerate(analysis.ret[metrics[j].name])
               ELSE analysis.ret[metrics[j].name] =
                        analyze(analyzer, metrics[j].values, metrics[j].dates,
                                metrics[j].name).value

\* a batch whose first metric fails and whose second is fully analysed
C13_Witness ==
    /\ Batched
    /\ Len(metrics) = 2
    /\ BatchFails(1)
    /\ Len(analysis.ret[metrics[2].name].anomalies) = 1

\* C14 as stated: a metric whose analysis fails has no key in the result map
\* of analyze_multiple.
C14_FailureExcluded ==
    Batched =>
        \A j \in 1..Len(metrics) :
            BatchFails(j) => metrics[j].name \notin DOMAIN analysis.ret

\* C14 amended: a metric whose analysis fails keeps its key in the result map
\* of analyze_multiple, under its own name, and the batch is not aborted: the
\* other metrics keep their keys too.
C14_FailureKept ==
    Batched =>
        \A j \in 1..Len(metrics) :
            BatchFails(j) =>
                /\ metrics[j].name \in DOMAIN analysis.ret
                /\ analysis.ret[metrics[j].name].metric_name = metrics[j].name
                /\ \A k \in 1..Len(metrics) : metrics[k].name \in DOMAIN analysis.ret

\* a batch whose last metric fails, with that metric's key in the result
C14_Witness ==
    /\ Batched
    /\ Len(metrics) = 2
    /\ BatchFails(2)
    /\ metrics[2].name \in DOMAIN analysis.ret

\* C15: analyze on fewer than 3 values, the empty series included, does not
\* fail and returns Stable, slope 0, R2 0, seasonality None with no factors,
\* volatility 0, recent change 0, no anomalies and exactly one insight.
C15_ShortSeriesDegenerate ==
    (analysis.op = "analyze" /\ analysis.values.type = "list"
        /\ Len(analysis.values.items) < 3) =>
        /\ analysis.ret.ok
        /\ analysis.ret.value.direction = "stable"
        /\ analysis.ret.value.slope = 0
        /\ analysis.ret.value.r_squared = 0
        /\ analysis.ret.value.seasonality = "none"
        /\ DOMAIN analysis.ret.value.seasonal_factors = {}
        /\ analysis.ret.value.volatility = 0
        /\ analysis.ret.value.recent_change = 0
        /\ Len(analysis.ret.value.anomalies) = 0
        /\ Len(analysis.ret.value.insights) = 1

\* analyze has returned for the empty series
C15_Witness ==
    /\ Analyzed
    /\ analysis.values.type = "list"
    /\ Len(analysis.values.items) = 0

\* the series of the latest analyze call and its statistics, from the sums
Observed == analysis.values.items

Count == Len(Observed)

Total == Sum(Observed)

\* Count^2 * variance
Spread == Count * Sum([j \in 1..Count |-> Observed[j] * Observed[j]]) - Total * Total

\* the regression slope times Count * (Count^2 - 1) / 6
SlopeSign == Sum([j \in 1..Count |-> (2 * j - Count - 1) * Observed[j]])

\* stddev / |mean| > 0.3, for a mean that is not 0
HighSpread == Total # 0 /\ 100 * Spread > 9 * Total * Total

\* |slope| < 0.01 * |mean|
SmallSlope == 600 * Abs(SlopeSign) < Abs(Total) * (Count * Count - 1)

\* C16: for a series of at least 3 values the direction is Volatile when
\* stddev/|mean| > 0.3; otherwise Stable when |slope| < 0.01 * |mean|;
\* otherwise Increasing when slope > 0 and Decreasing when slope < 0.
\* Increasing is reported only with slope > 0, Decreasing only with slope < 0.
C16_DirectionPrecedence ==
    (Analyzed /\ Count >= 3) =>
        LET direction == analysis.ret.value.direction
        IN  /\ HighSpread => direction = "volatile"
            /\ (~HighSpread /\ SmallSlope) => direction = "stable"
            /\ (~HighSpread /\ ~SmallSlope /\ SlopeSign > 0) => direction = "increasing"
            /\ (~HighSpread /\ ~SmallSlope /\ SlopeSign < 0) => direction = "decreasing"
            /\ direction = "increasing" => SlopeSign > 0
            /\ direction = "decreasing" => SlopeSign < 0

\* C17: analyze on a flat series of at least 3 identical values, positive,
\* zero or negative, does not raise and returns Stable, slope 0, volatility 0
\* and no anomalies.
C17_FlatSeriesStable ==
    (analysis.op = "analyze" /\ analysis.values.type = "list" /\ Count >= 3
        /\ \A j \in 1..Count : Observed[j] = Observed[1]) =>
        /\ analysis.ret.ok
        /\ analysis.ret.value.direction = "stable"
        /\ analysis.ret.value.slope = 0
        /\ analysis.ret.value.volatility = 0
        /\ Len(analysis.ret.value.anomalies) = 0

\* the calendar months of the analysed series, and the observations of each
ObservedMonths == {(analysis.dates[j] % 12) + 1 : j \in 1..Count}

InMonth(m) == {j \in 1..Count : (analysis.dates[j] % 12) + 1 = m}

\* variance of (month mean / overall mean) > 0.01, as the mean squared
\* difference over all pairs of months, on the common denominator L
FactorVarianceMaterial ==
    LET L == LCMOver({Cardinality(InMonth(m)) : m \in ObservedMonths})
        G == [m \in ObservedMonths |->
                 SumOver(Observed, InMonth(m)) * (L \div Cardinality(InMonth(m)))]
        gaps == [m \in ObservedMonths |->
                    SumOver([o \in ObservedMonths |-> (G[m] - G[o]) * (G[m] - G[o])],
                            ObservedMonths)]
        k == Cardinality(ObservedMonths)
    IN  100 * Count * Count * SumOver(gaps, ObservedMonths)
            > 2 * k * k * L * L * Total * Total

\* C18: seasonality is Monthly exactly when the series has at least
\* min_seasonality_periods observations, a mean that is not 0, at least 4
\* distinct calendar months and a variance of the per-month factors above
\* 0.01; otherwise it is None with an empty factor map, for a flat series of
\* any length too; the factor map is non-empty only together with Monthly.
C18_SeasonalityExactly ==
    Analyzed =>
        LET r == analysis.ret.value
            seasonal == /\ Count >= analyzer.min_seasonality_periods
                        /\ Total # 0
                        /\ Cardinality(ObservedMonths) >= 4
                        /\ FactorVarianceMaterial
        IN  /\ r.seasonality = (IF seasonal THEN "monthly" ELSE "none")
            /\ r.seasonality = "none" => DOMAIN r.seasonal_factors = {}
            /\ DOMAIN r.seasonal_factors # {} => r.seasonality = "monthly"
            /\ (\A j \in 1..Count : Observed[j] = Observed[1]) =>
                   r.seasonality = "none"

\* two years of monthly values were found Monthly by the default analyzer
C18_Witness ==
    /\ Analyzed
    /\ analyzer = DefaultAnalyzer
    /\ Count = 24
    /\ analysis.ret.value.seasonality = "monthly"
    /\ DOMAIN analysis.ret.value.seasonal_factors = 1..12

\* the observations with |z| > threshold
Outlying ==
    {j \in 1..Count :
        100 * (Count * Observed[j] - Total) * (Count * Observed[j] - Total)
            > analyzer.anomaly_threshold * analyzer.anomaly_threshold * Spread}

\* C19: the anomaly list holds, in ascending index order, exactly the
\* observations with |z| > threshold, each tagged high when z > 0 and low
\* when z < 0, and is empty when the standard deviation is 0.
C19_AnomaliesExactly ==
    Analyzed =>
        LET found == analysis.ret.value.anomalies
        IN  /\ Len(found) = Cardinality(Outlying)
            /\ \A k \in 1..Len(found) :
                   /\ found[k].index + 1 \in Outlying
                   /\ found[k].value = Observed[found[k].index + 1]
                   /\ found[k].type = "high" <=> Count * found[k].value > Total
                   /\ found[k].type = "low" <=> Count * found[k].value < Total
            /\ \A k \in 1..(Len(found) - 1) : found[k].index < found[k + 1].index
            /\ Spread = 0 => Len(found) = 0

\* a low and a high observation were both flagged, in index order
C19_Witness ==
    /\ Analyzed
    /\ Len(analysis.ret.value.anomalies) = 2
    /\ analysis.ret.value.anomalies[1].type = "low"
    /\ analysis.ret.value.anomalies[2].type = "high"

\* ten values within 1 of each other and the one at pos at least 9 from them
SpikeAt(pos) ==
    /\ Count = 11
    /\ \A j, k \in (1..Count) \ {pos} : Abs(Observed[j] - Observed[k]) <= 1
    /\ \A j \in (1..Count) \ {pos} : Abs(Observed[pos] - Observed[j]) >= 9

\* C20: for 10 equal or nearly equal values plus one value far from them,
\* analyze with the default threshold reports exactly one anomaly, the far
\* value, and flags none of the 10 baseline values.
C20_SingleOutlier ==
    (Analyzed /\ analyzer.anomaly_threshold = DefaultAnalyzer.anomaly_threshold) =>
        \A pos \in 1..Count :
            SpikeAt(pos) =>
                /\ Len(analysis.ret.value.anomalies) = 1
                /\ analysis.ret.value.anomalies[1].index = pos - 1
                /\ analysis.ret.value.anomalies[1].value = Observed[pos]

\* a jittered baseline with a far low value in the middle was analysed
C20_Witness ==
    /\ Analyzed
    /\ analyzer.anomaly_threshold = DefaultAnalyzer.anomaly_threshold
    /\ SpikeAt(6)
    /\ \E j \in 1..Count : Observed[j] = 11
    /\ Len(analysis.ret.value.anomalies) = 1
    /\ analysis.ret.value.anomalies[1].type = "low"

(* ------------------------------ forecaster properties, continued ------- *)
\* C21: in a statistical ForecastResult the half-width upper_bound[i] -
\* predicted_cash[i] equals predicted_cash[i] - lower_bound[i] (the interval
\* is symmetric about the prediction) and is non-decreasing in i.
C21_HalfWidthSymmetricWidening ==
    Forecasted =>
        LET r == out.ret.value
        IN  /\ \A i \in 1..out.periods :
                   r.upper_bound[i] - r.predicted_cash[i]
                       = r.predicted_cash[i] - r.lower_bound[i]
            /\ \A i \in 1..(out.periods - 1) :
                   r.upper_bound[i] - r.predicted_cash[i]
                       <= r.upper_bound[i + 1] - r.predicted_cash[i + 1]

Burned == out.op = "calculate_burn_rate" /\ out.ret.ok

NetFlowAt(j) == data.cash_inflows[j] - data.cash_outflows[j]

\* the periods with a negative net flow, and the sum of their losses
BurnPeriods == {j \in 1..Len(data.dates) : NetFlowAt(j) < 0}

BurnTotal == 0 - SumOver([j \in 1..Len(data.dates) |-> NetFlowAt(j)], BurnPeriods)

OutflowTotal == Sum(data.cash_outflows)

\* C22: net burn is the magnitude of the mean negative net flow (0 when there
\* is none) and gross burn the mean outflow, to the cent; the net runway is
\* current cash over net burn, to the tenth, and absent exactly when no net
\* flow is negative; the gross runway is current cash over gross burn and
\* absent exactly when the mean outflow is not positive.
C22_BurnRateFigures ==
    Burned =>
        LET r == out.ret.value
            n == Len(data.dates)
            c == Cardinality(BurnPeriods)
            cash == Last(data.cash_balances)
        IN  /\ IF c = 0 THEN r.net_burn_rate = 0
               ELSE 2 * Abs(r.net_burn_rate * c - BurnTotal) <= Cent * c
            /\ 2 * Abs(r.gross_burn_rate * n - OutflowTotal) <= Cent * n
            /\ Len(r.runway_months_net) = (IF c = 0 THEN 0 ELSE 1)
            /\ c # 0 =>
                   2 * Abs(r.runway_months_net[1] * BurnTotal - 10 * cash * c) <= BurnTotal
            /\ Len(r.runway_months_gross) = (IF OutflowTotal > 0 THEN 1 ELSE 0)
            /\ OutflowTotal > 0 =>
                   2 * Abs(r.runway_months_gross[1] * OutflowTotal - 10 * cash * n)
                       <= OutflowTotal

\* two of four periods burned cash and both runways were reported
C22_Witness ==
    /\ Burned
    /\ Len(data.dates) = 4
    /\ Cardinality(BurnPeriods) = 2
    /\ Len(out.ret.value.runway_months_net) = 1
    /\ Len(out.ret.value.runway_months_gross) = 1

\* the negative net flows in period order
BurnFlows == SelectSeq([j \in 1..Len(data.dates) |-> NetFlowAt(j)], LAMBDA f : f < 0)

\* the least-squares slope of BurnFlows times m * (m^2 - 1) / 6
BurnSlope ==
    Sum([j \in 1..Len(BurnFlows) |-> (2 * j - Len(BurnFlows) - 1) * BurnFlows[j]])

\* 0.05 * |mean of BurnFlows| on the same scale, times 120
BurnThreshold == Abs(Sum(BurnFlows)) * (Len(BurnFlows) * Len(BurnFlows) - 1)

\* C26: burn_trend comes from the least-squares slope of the negative net
\* flows in period order: increasing when slope > 0.05 * |their mean|,
\* decreasing when slope < -0.05 * |their mean|, stable otherwise, and stable
\* whenever fewer than 2 net flows are negative.
C26_BurnTrendFromSlope ==
    Burned =>
        out.ret.value.burn_trend =
            (IF Len(BurnFlows) < 2 THEN "stable"
             ELSE IF 120 * BurnSlope > BurnThreshold THEN "increasing"
             ELSE IF 120 * BurnSlope < 0 - BurnThreshold THEN "decreasing"
             ELSE "stable")

\* three losses, the latest the smallest: the flows rise towards zero
C26_Witness ==
    /\ Burned
    /\ Len(BurnFlows) = 3
    /\ BurnFlows[3] > BurnFlows[1]
    /\ out.ret.value.burn_trend = "increasing"

\* the net flow of period j of the series the projection ran on
ProjectedFlow(j) == Projected.cash_inflows[j] - Projected.cash_outflows[j]

Window == Min(6, Len(Projected.dates))

\* the weights 1..Window sum to this
WeightTotal == (Window * (Window + 1)) \div 2

\* the last Window net flows weighted 1, 2, ..., Window from oldest to newest
WeightedFlows ==
    Sum([j \in 1..Window |-> j * ProjectedFlow(Len(Projected.dates) - Window + j)])

\* C23: the per-period increment is the weighted average of the last
\* min(6, length) net flows, weights 1..w from oldest to newest, and constant
\* over the horizon: predicted_cash[k] is the last scenario-adjusted balance
\* plus (k + 1) times the increment (k from 0), up to 2-digit rounding.
C23_WeightedWindowIncrement ==
    Forecasted =>
        \A k \in 1..out.periods :
            2 * Abs(WeightTotal * (out.ret.value.predicted_cash[k]
                                       - Last(Projected.cash_balances))
                    - k * WeightedFlows) <= Cent * WeightTotal

\* a 7-period history whose first net flow, outside the window, differs from
\* its last was projected over 3 periods
C23_Witness ==
    /\ Forecasted
    /\ Len(data.dates) = 7
    /\ out.periods = 3
    /\ data.cash_outflows[1] # data.cash_outflows[7]

\* C25: a non-Baseline scenario changes only the last min(3, length) periods
\* of the derived series: every earlier period keeps the caller's inflow,
\* outflow and balance, also when the recorded balances are not the running
\* sum of the net flows.
C25_EarlierPeriodsKept ==
    (Forecasted /\ out.scenario \in Scenarios \ {"baseline"}) =>
        \A j \in 1..(Len(data.dates) - Min(3, Len(data.dates))) :
            /\ Projected.cash_inflows[j] = data.cash_inflows[j]
            /\ Projected.cash_outflows[j] = data.cash_outflows[j]
            /\ Projected.cash_balances[j] = data.cash_balances[j]

\* Count^2 times the population variance of the projected net flows, in
\* squared FlowGrid steps: n * (sum of squared deviations from the mean)
FlowDeviations ==
    LET n == Len(Projected.dates)
        u == [j \in 1..n |-> ProjectedFlow(j) \div FlowGrid]
    IN  n * Sum([j \in 1..n |-> u[j] * u[j]]) - Sum(u) * Sum(u)

\* z * s * sqrt(k) for the sample standard deviation s, which divides the sum
\* of squared deviations by n - 1
SampleWidth(k) ==
    LET n == Len(Projected.dates)
        z == IF confidence_level = 80 THEN 128 ELSE 196
    IN  (z * FlowGrid * ISqrt((k * FlowDeviations) \div (n * (n - 1)))) \div 100

\* C24: the dispersion behind the confidence bounds is the sample standard
\* deviation of all net flows, dividing by n - 1: the half-width at horizon k
\* is z * s * sqrt(k) to within 5 cents of rounding.
C24_SampleDeviation ==
    (Forecasted /\ confidence_level \in {80, 95}) =>
        \A k \in 1..out.periods :
            Abs(out.ret.value.upper_bound[k] - out.ret.value.predicted_cash[k]
                    - SampleWidth(k)) <= 5 * Cent

(* ------------------------------ trend analyzer properties, continued --- *)
\* the sum of the observations before the last 3, and of the last 3
EarlierTotal == Sum(SubSeq(Observed, 1, Count - 3))

LatestTotal == Sum(SubSeq(Observed, Count - 2, Count))

\* C27: recent_change is 100 * (mean of the last 3 observations - mean of all
\* earlier ones) / |mean of all earlier ones|, to 2 digits, and 0 whenever
\* the series has fewer than 6 observations or the earlier mean is 0.
C27_RecentChange ==
    Analyzed =>
        LET change == analysis.ret.value.recent_change
        IN  IF Count < 6 THEN change = 0
            ELSE IF EarlierTotal = 0 THEN change = 0
            ELSE 2 * Abs(change * 3 * Abs(EarlierTotal)
                         - 10000 * (LatestTotal * (Count - 3) - 3 * EarlierTotal))
                     <= 3 * Abs(EarlierTotal)

\* six observations with a negative earlier mean and a rise since
C27_Witness ==
    /\ Analyzed
    /\ Count = 6
    /\ EarlierTotal < 0
    /\ analysis.ret.value.recent_change > 0

InsightKinds == {analysis.ret.value.insights[k].kind :
                    k \in 1..Len(analysis.ret.value.insights)}

\* the trend insight that goes with a direction
TrendInsightOf(direction) ==
    CASE direction = "increasing" -> "upward_trend"
      [] direction = "decreasing" -> "downward_trend"
      [] direction = "volatile" -> "volatile_trend"
      [] OTHER -> "relatively_stable"

TrendInsights == {"upward_trend", "downward_trend", "volatile_trend", "relatively_stable"}

\* C28: in every TrendResult of a full analysis (at least 3 values) the
\* direction is Volatile exactly when the insights hold the high-volatility
\* insight, which is when the coefficient of variation is above 0.3; the
\* first insight is the one trend insight, and it matches the direction.
C28_DirectionAgreesWithInsights ==
    (Analyzed /\ Count >= 3) =>
        LET r == analysis.ret.value
        IN  /\ r.direction = "volatile" <=> "high_volatility" \in InsightKinds
            /\ r.direction = "volatile" <=> HighSpread
            /\ r.insights[1].kind = TrendInsightOf(r.direction)
            /\ \A k \in 2..Len(r.insights) : r.insights[k].kind \notin TrendInsights

\* a series with large swings and an upward drift was found Volatile
C28_Witness ==
    /\ Analyzed
    /\ Count >= 3
    /\ SlopeSign > 0
    /\ analysis.ret.value.direction = "volatile"
    /\ "high_volatility" \in InsightKinds

Depleted == {i \in 1..out.periods : out.ret.value.predicted_cash[i] <= 0}

FirstDepleted == CHOOSE i \in Depleted : \A j \in Depleted : i <= j

\* C29: zero_cash_date is present exactly when some predicted balance within
\* the horizon is <= 0; it is then no earlier than the date preceding the
\* first such index (the last historical date for index 0) and no later than
\* the forecast date of that index.
C29_ZeroDateWithinCrossingPeriod ==
    Forecasted =>
        /\ Len(out.ret.value.zero_cash_date) = (IF Depleted = {} THEN 0 ELSE 1)
        /\ Depleted # {} =>
               /\ PriorDate(FirstDepleted) <= out.ret.value.zero_cash_date[1]
               /\ out.ret.value.zero_cash_date[1]
                      <= out.ret.value.forecast_dates[FirstDepleted]

\* the balance first reached zero at the second index or later, and the
\* zero date fell strictly inside that period
C29_Witness ==
    /\ Forecasted
    /\ Depleted # {}
    /\ FirstDepleted >= 2
    /\ PriorDate(FirstDepleted) < out.ret.value.zero_cash_date[1]
    /\ out.ret.value.zero_cash_date[1] < out.ret.value.forecast_dates[FirstDepleted]

====
